---------------------------- MODULE Spec2Model ----------------------------
(***************************************************************************)
(* Bangladeshi Taka note detection service: the FastAPI application of     *)
(* api.py (startup, GET /, GET /health, POST /predict) and the             *)
(* TakaNoteDetector.predict method of inference.py.                        *)
(*                                                                         *)
(* Floats are fixed-point integers in units of 1/10000 (1.0 is 10000), in  *)
(* a record that also carries NaN.  Python strings that the code inspects  *)
(* character by character (the content type) are tuples of characters.    *)
(* An optional value (None or a value) is the empty or the one-element     *)
(* tuple.                                                                  *)
(***************************************************************************)
EXTENDS Integers, Sequences, FiniteSets, TLC

VARIABLES
    phase,        \* "init" (module imported), "serving" (startup done), "failed" (startup raised)
    weights,      \* the file models/best.pt: "absent", "valid" or "corrupt"
    model,        \* api.py global `model`: "None" or "YOLO"
    class_names,  \* api.py global `class_names`
    req           \* the calls in progress or answered, one record per slot

vars == <<phase, weights, model, class_names, req>>

\* ------------------------------------------------------------------ bounds

\* Number of calls that may be in progress or awaiting collection at once.
NumRequests == 1

Req == 1..NumRequests

\* ------------------------------------------------------------------ values

\* 1.0 in fixed point (the upper limit of api.py line 155).
One == 10000

\* Default of the `confidence` parameter, 0.25 (api.py line 126).
DefaultConfidence == 2500

Float(v) == [nan |-> FALSE, v |-> v]

NaN == [nan |-> TRUE, v |-> 0]

\* IEEE comparison as Python evaluates a <= b: false when either side is NaN.
Leq(a, b) == ~a.nan /\ ~b.nan /\ a.v <= b.v

None == <<>>

Some(x) == <<x>>

\* Content types a client may declare for the upload.
ImageSlash == <<"i","m","a","g","e","/">>

ImageJpeg == <<"i","m","a","g","e","/","j","p","e","g">>

ImageNoSlash == <<"i","m","a","g","e">>

TextPlain == <<"t","e","x","t","/","p","l","a","i","n">>

EmptyStr == <<>>

ContentTypes == {None, Some(EmptyStr), Some(ImageNoSlash), Some(TextPlain), Some(ImageJpeg)}

\* Values of the ?confidence= query parameter, and of a `confidence` form field.
QueryConfidences ==
    {None, Some(Float(-1)), Some(Float(0)), Some(Float(5000)), Some(Float(One)),
     Some(Float(One + 1)), Some(NaN)}

FormConfidences == {None, Some(Float(15000))}

\* Raw detections of the engine: <<box, score, class id>>.
Det(box, score, cls) == [box |-> box, score |-> score, cls |-> cls]

\* What each upload holds.  "corrupt" is not a decodable image; the others
\* decode, and Scene gives what the network sees in them, in its native order.
Images == {"corrupt", "blank", "notes", "neg", "big"}

Scene(img) ==
    CASE img = "notes" -> << Det(<<10, 20, 110, 70>>, 3000, 3),
                             Det(<<5, 5, 60, 40>>, 9000, 0) >>
      [] img = "neg"   -> << Det(<<1, 2, 3, 4>>, 8000, -1) >>
      [] img = "big"   -> << Det(<<1, 2, 3, 4>>, 8000, 5) >>
      [] OTHER         -> << >>

\* ------------------------------------------------------------------ engine

\* ultralytics result.boxes: three parallel arrays; len(result.boxes) is Len(xyxy).
Boxes(dets) ==
    [xyxy |-> [i \in 1..Len(dets) |-> dets[i].box],
     conf |-> [i \in 1..Len(dets) |-> dets[i].score],
     cls  |-> [i \in 1..Len(dets) |-> dets[i].cls]]

AboveThreshold(dets, conf) ==
    LET Keep(d) == Leq(conf, Float(d.score)) IN SelectSeq(dets, Keep)

Front(s) == SubSeq(s, 1, Len(s) - 1)

NotCalled == [kind |-> "not_called", results |-> <<>>]

EngineRaised == [kind |-> "raised", results |-> <<>>]

Returned(results) == [kind |-> "returned", results |-> results]

\* Outcomes of model.predict(source, conf=confidence): the engine applies the
\* threshold and keeps its order; it may also raise, or hand back an output
\* that does not have the documented shape.
EngineOutcomes(img, conf) ==
    LET b == Boxes(AboveThreshold(Scene(img), conf)) IN
    { EngineRaised,
      Returned(<<>>),
      Returned(<< [boxes |-> None] >>),
      Returned(<< [boxes |-> Some(b)] >>) }
    \cup (IF Len(b.xyxy) > 0
          THEN { Returned(<< [boxes |-> Some([b EXCEPT !.conf = Front(b.conf)])] >>),
                 Returned(<< [boxes |-> Some([b EXCEPT !.cls = Front(b.cls)])] >>) }
          ELSE {})

\* ------------------------------------------------------------------ slots

NoResponse == <<>>

Idle ==
    [pc |-> "idle", route |-> "", content_type |-> None, query_confidence |-> None,
     form_confidence |-> None, file |-> "", confidence |-> Float(0), read_ok |-> TRUE,
     read_count |-> 0, engine_calls |-> 0, engine_out |-> NotCalled,
     response |-> NoResponse, result |-> None, raised |-> ""]

\* ------------------------------------------------------------------ startup

\* startup_event() without its except clause.
startup_outcome_uncaught(w) ==
    IF w = "valid" THEN [phase |-> "serving", model |-> "YOLO"]
    ELSE [phase |-> "failed", model |-> model]

\* load_model(): raises FileNotFoundError when the weights are absent, lets
\* whatever YOLO(model_path) raises through, and otherwise sets the global.
load_model(w) ==
    CASE w = "absent" -> [raised |-> "FileNotFoundError", model |-> "None"]
      [] w = "valid"  -> [raised |-> "", model |-> "YOLO"]
      [] OTHER        -> [raised |-> "Exception", model |-> "None"]

\* startup_event(): only FileNotFoundError is caught.
startup_outcome(w) ==
    LET r == load_model(w) IN
    IF r.raised = "" THEN [phase |-> "serving", model |-> r.model]
    ELSE IF r.raised = "FileNotFoundError" THEN [phase |-> "serving", model |-> model]
    ELSE [phase |-> "failed", model |-> model]

startup_event ==
    /\ phase = "init"
    /\ LET o == startup_outcome(weights) IN
        /\ phase' = o.phase
        /\ model' = o.model
        \* a failed startup ends the process, and its pending calls with it
        /\ req' = IF o.phase = "failed" THEN [r \in DOMAIN req |-> Idle] ELSE req
    /\ UNCHANGED <<weights, class_names>>

Up == phase \in {"init", "serving"}

\* ------------------------------------------------------------------ GET / and GET /health

RootBody ==
    [message |-> "Bangladeshi Taka Note Detection API", version |-> "1.0.0",
     task |-> "Task 2: REST API Development",
     endpoints |-> {"/predict", "/health", "/docs"}]

HttpResponse(code, body) == Some([status_code |-> code, body |-> body])

root(r) ==
    /\ Up
    /\ req[r].pc = "idle"
    /\ req' = [req EXCEPT ![r] = [Idle EXCEPT !.pc = "done", !.route = "/",
                                              !.response = HttpResponse(200, RootBody)]]
    /\ UNCHANGED <<phase, weights, model, class_names>>

\* health_check() with the two strings exchanged.
health_body_inverted(m) ==
    [status |-> "healthy", model_status |-> IF m # "None" THEN "not loaded" ELSE "loaded"]

health_body(m) ==
    [status |-> "healthy", model_status |-> IF m # "None" THEN "loaded" ELSE "not loaded"]

health_check(r) ==
    /\ Up
    /\ req[r].pc = "idle"
    /\ req' = [req EXCEPT ![r] = [Idle EXCEPT !.pc = "done", !.route = "/health",
                                              !.response = HttpResponse(200, health_body(model))]]
    /\ UNCHANGED <<phase, weights, model, class_names>>

\* ------------------------------------------------------------------ POST /predict

\* How FastAPI binds `confidence: float = 0.25` of predict(): a parameter of a
\* scalar type that is no path parameter and is not declared with Form() is a
\* query parameter.  A form field of the same name is not looked at.
bind_confidence(query, form) ==
    IF query # None THEN query[1] ELSE Float(DefaultConfidence)

\* str.startswith
StartsWith(s, prefix) ==
    /\ Len(s) >= Len(prefix)
    /\ SubSeq(s, 1, Len(prefix)) = prefix

\* The content-type test with the prefix 'image' instead of 'image/'.
is_image_type_no_slash(ct) ==
    /\ ct # None
    /\ StartsWith(ct[1], ImageNoSlash)

\* The negation of line 148: the content type is there, is not '', and starts with 'image/'.
is_image_type(ct) ==
    /\ ct # None
    /\ ct[1] # EmptyStr
    /\ StartsWith(ct[1], ImageSlash)

\* The range test with the upper end excluded.
confidence_in_range_exclusive(c) == Leq(Float(0), c) /\ Leq(c, Float(One)) /\ c.v # One

\* Line 155: 0.0 <= confidence <= 1.0.
confidence_in_range(c) == Leq(Float(0), c) /\ Leq(c, Float(One))

HTTPException(code, detail) == Some([status_code |-> code, detail |-> detail])

\* The checks with the content type looked at before the model handle.
check_request_type_first(m, ct, c) ==
    IF ~is_image_type(ct)
        THEN HTTPException(400, "Invalid file type. Please upload an image file (JPEG/PNG)")
    ELSE IF m = "None"
        THEN HTTPException(503, "Model not loaded. Please ensure model weights are available.")
    ELSE IF ~confidence_in_range(c)
        THEN HTTPException(400, "Confidence threshold must be between 0.0 and 1.0")
    ELSE None

\* The checks without the confidence range test.
check_request_no_range(m, ct, c) ==
    IF m = "None"
        THEN HTTPException(503, "Model not loaded. Please ensure model weights are available.")
    ELSE IF ~is_image_type(ct)
        THEN HTTPException(400, "Invalid file type. Please upload an image file (JPEG/PNG)")
    ELSE None

\* Lines 140-159: the three checks before the try block, in their order.
\* None when all pass, else the HTTPException raised.
check_request(m, ct, c) ==
    IF m = "None"
        THEN HTTPException(503, "Model not loaded. Please ensure model weights are available.")
    ELSE IF ~is_image_type(ct)
        THEN HTTPException(400, "Invalid file type. Please upload an image file (JPEG/PNG)")
    ELSE IF ~confidence_in_range(c)
        THEN HTTPException(400, "Confidence threshold must be between 0.0 and 1.0")
    ELSE None

\* names[id] as Python indexes a list: ids -len..-1 count from the end.
ValidIndex(names, id) == -Len(names) <= id /\ id < Len(names)

Index(names, id) == IF id >= 0 THEN names[id + 1] ELSE names[Len(names) + id + 1]

Detection(name, score, box) ==
    [class_name |-> name, confidence |-> score,
     bounding_box |-> [x1 |-> box[1], y1 |-> box[2], x2 |-> box[3], y2 |-> box[4]]]

Raise == [raised |-> TRUE, detections |-> <<>>]

Ok(dets) == [raised |-> FALSE, detections |-> dets]

\* The loop of lines 186-197 (inference.py 77-88) from index i on: every
\* out-of-range subscript raises IndexError and nothing is returned.
RECURSIVE detection_loop(_, _, _)
detection_loop(names, b, i) ==
    IF i > Len(b.xyxy) THEN Ok(<<>>)
    ELSE IF \/ i > Len(b.cls)
            \/ ~ValidIndex(names, b.cls[i])
            \/ i > Len(b.conf)
            \/ Len(b.xyxy[i]) < 4
        THEN Raise
    ELSE LET rest == detection_loop(names, b, i + 1) IN
         IF rest.raised THEN Raise
         ELSE Ok(<<Detection(Index(names, b.cls[i]), b.conf[i], b.xyxy[i])>> \o rest.detections)

\* Detections ordered by falling confidence.
RECURSIVE SortByConfidence(_)
SortByConfidence(s) ==
    IF Len(s) <= 1 THEN s
    ELSE LET m == CHOOSE i \in 1..Len(s) : \A j \in 1..Len(s) : s[j].confidence <= s[i].confidence
         IN <<s[m]>> \o SortByConfidence(SubSeq(s, 1, m - 1) \o SubSeq(s, m + 1, Len(s)))

\* The extraction followed by a sort of the detections, best first.
extract_detections_sorted(names, result) ==
    IF result.boxes # None /\ Len(result.boxes[1].xyxy) > 0
    THEN LET d == detection_loop(names, result.boxes[1], 1) IN
         IF d.raised THEN Raise ELSE Ok(SortByConfidence(d.detections))
    ELSE Ok(<<>>)

\* The extraction without `result.boxes is not None`: len(None) raises.
extract_detections_no_none_check(names, result) ==
    IF result.boxes = None THEN Raise
    ELSE IF Len(result.boxes[1].xyxy) > 0 THEN detection_loop(names, result.boxes[1], 1)
    ELSE Ok(<<>>)

\* Lines 181-197: `if result.boxes is not None and len(result.boxes) > 0`.
extract_detections(names, result) ==
    IF result.boxes # None /\ Len(result.boxes[1].xyxy) > 0
    THEN detection_loop(names, result.boxes[1], 1)
    ELSE Ok(<<>>)

\* The conversion written over zip(boxes, confidences, class_ids): it stops at
\* the shortest array instead of raising, and an empty result list gives no
\* detections.
shape_results_zip(names, out) ==
    IF out.kind # "returned" THEN Raise
    ELSE IF Len(out.results) = 0 THEN Ok(<<>>)
    ELSE IF out.results[1].boxes = None THEN Ok(<<>>)
    ELSE LET b == out.results[1].boxes[1]
             n == IF Len(b.conf) < Len(b.cls) THEN Len(b.conf) ELSE Len(b.cls)
             m == IF n < Len(b.xyxy) THEN n ELSE Len(b.xyxy)
         IN detection_loop(names, [b EXCEPT !.xyxy = SubSeq(b.xyxy, 1, m)], 1)

\* Lines 177-197 on what model.predict gave: results[0] raises on an empty list.
shape_results(names, out) ==
    IF out.kind # "returned" THEN Raise
    ELSE IF Len(out.results) = 0 THEN Raise
    ELSE extract_detections(names, out.results[1])

\* The response with num_detections = len(results) instead of len(detections).
prediction_response_len_results(results, dets) ==
    [success |-> TRUE, num_detections |-> Len(results), detections |-> dets,
     message |-> "Detection completed successfully"]

\* Lines 200-205.
prediction_response(results, dets) ==
    [success |-> TRUE, num_detections |-> Len(dets), detections |-> dets,
     message |-> "Detection completed successfully"]

Decodes(img) == img # "corrupt"

\* The engine call without conf=: the engine then applies its own default, 0.25.
model_predict_default_conf(img, c) == EngineOutcomes(img, Float(DefaultConfidence))

\* The engine call on an image and threshold kept in one place for all
\* requests, where the first slot's request has put its own.
model_predict_shared(img, c) == EngineOutcomes(req[1].file, req[1].confidence)

\* Lines 170-175: model.predict(source=image_array, conf=confidence, ...).
model_predict(img, c) == EngineOutcomes(img, c)

\* An except clause that answers 200 with success=false instead of raising.
error_response_as_200 ==
    HttpResponse(200, [success |-> FALSE, num_detections |-> 0, detections |-> <<>>,
                       message |-> "Error processing image: <str(e)>"])

\* Lines 207-212: every Exception of the try block becomes a 500.
error_response == HttpResponse(500, [detail |-> "Error processing image: <str(e)>"])

\* The try block, lines 161-212, given whether file.read() returned and what
\* the engine did (NotCalled when the block raised before line 170).
try_block(names, read_ok, img, out) ==
    IF ~read_ok \/ out.kind = "not_called" THEN error_response
    ELSE LET s == shape_results(names, out) IN
         IF s.raised THEN error_response
         ELSE HttpResponse(200, prediction_response(out.results, s.detections))

\* predict() up to its first suspension, `await file.read()` of line 163, for
\* a request drawn from the given content types, query and form values and
\* uploads.
predict_with(r, cts, qs, fs, imgs) ==
    /\ Up
    /\ req[r].pc = "idle"
    /\ \E ct \in cts, q \in qs, f \in fs, img \in imgs :
        LET c   == bind_confidence(q, f)
            exc == check_request(model, ct, c)
            in  == [Idle EXCEPT !.route = "/predict", !.content_type = ct,
                                !.query_confidence = q, !.form_confidence = f,
                                !.file = img, !.confidence = c]
        IN req' = [req EXCEPT ![r] =
                IF exc # None
                THEN [in EXCEPT !.pc = "done",
                                !.response = HttpResponse(exc[1].status_code,
                                                          [detail |-> exc[1].detail])]
                ELSE [in EXCEPT !.pc = "reading", !.read_count = 1]]
    /\ UNCHANGED <<phase, weights, model, class_names>>

predict(r) == predict_with(r, ContentTypes, QueryConfidences, FormConfidences, Images)

\* A handler that drops the model handle when it is done with it.
globals_after_predict_reset(m, names) == [model |-> "None", class_names |-> names]

\* A handler that reorders the label list in place (class_names.reverse()).
globals_after_predict_reversed(m, names) ==
    [model |-> m, class_names |-> [i \in 1..Len(names) |-> names[Len(names) + 1 - i]]]

\* Lines 125-212 hold no `global` statement and no call that changes the
\* list: predict() leaves `model` and `class_names` as it found them.
globals_after_predict(m, names) == [model |-> m, class_names |-> names]

\* predict() from the return of file.read() to its end; model.predict is a
\* plain call, so the rest of the handler runs without suspension.
predict_resume(r) ==
    /\ Up
    /\ req[r].pc = "reading"
    /\ \E ok \in BOOLEAN :
        \E out \in (IF ok /\ Decodes(req[r].file) /\ model # "None"
                    THEN model_predict(req[r].file, req[r].confidence)
                    ELSE {NotCalled}) :
            req' = [req EXCEPT ![r] =
                [@ EXCEPT !.pc = "done", !.read_ok = ok,
                          !.engine_calls = IF out.kind = "not_called" THEN 0 ELSE 1,
                          !.engine_out = out,
                          !.response = try_block(class_names, ok, req[r].file, out)]]
    /\ model' = globals_after_predict(model, class_names).model
    /\ class_names' = globals_after_predict(model, class_names).class_names
    /\ UNCHANGED <<phase, weights>>

\* ------------------------------------------------------------------ inference.py

DetectorConfidences == {Float(DefaultConfidence), Float(0), Float(One), Float(15000)}

\* self.class_names of TakaNoteDetector.__init__ (inference.py line 45).
detector_class_names == <<"100 tk", "1000 tk", "200 tk", "500 tk", "objects">>

\* inference.py lines 77-88 from index i on: the detector's own loop over
\* boxes, confidences and class_ids, building plain dicts.
RECURSIVE detector_loop(_, _, _)
detector_loop(names, b, i) ==
    IF i > Len(b.xyxy) THEN Ok(<<>>)
    ELSE IF i > Len(b.cls) \/ ~ValidIndex(names, b.cls[i]) THEN Raise
    ELSE IF i > Len(b.conf) THEN Raise
    ELSE IF Len(b.xyxy[i]) < 4 THEN Raise
    ELSE LET rest == detector_loop(names, b, i + 1)
             d == [class_name |-> Index(names, b.cls[i]),
                   confidence |-> b.conf[i],
                   bounding_box |-> [x1 |-> b.xyxy[i][1], y1 |-> b.xyxy[i][2],
                                     x2 |-> b.xyxy[i][3], y2 |-> b.xyxy[i][4]]]
         IN IF rest.raised THEN Raise ELSE Ok(<<d>> \o rest.detections)

\* The detector's conversion skipping a detection it cannot label or score
\* instead of raising.
detector_shape_results_skipping(names, out) ==
    IF out.kind # "returned" THEN Raise
    ELSE IF Len(out.results) = 0 THEN Raise
    ELSE IF out.results[1].boxes = None THEN Ok(<<>>)
    ELSE LET b == out.results[1].boxes[1]
             n == IF Len(b.conf) < Len(b.cls) THEN Len(b.conf) ELSE Len(b.cls)
             k == IF n < Len(b.xyxy) THEN n ELSE Len(b.xyxy)
         IN detector_loop(names, [b EXCEPT !.xyxy = SubSeq(b.xyxy, 1, k)], 1)

\* inference.py lines 68-88 on what self.model.predict gave.
detector_shape_results(names, out) ==
    IF out.kind # "returned" THEN Raise
    ELSE IF Len(out.results) = 0 THEN Raise
    ELSE IF out.results[1].boxes # None /\ Len(out.results[1].boxes[1].xyxy) > 0
         THEN detector_loop(names, out.results[1].boxes[1], 1)
    ELSE Ok(<<>>)

\* The value TakaNoteDetector.predict returns (lines 90-94).
detector_result(path, dets) ==
    [image_path |-> path, num_detections |-> Len(dets), detections |-> dets]

\* TakaNoteDetector.predict(image_path, confidence_threshold) on a detector
\* that was constructed, which needs the weights: no range check, and
\* exceptions reach the caller.
TakaNoteDetector_predict(r) ==
    /\ weights = "valid"
    /\ Up
    /\ req[r].pc = "idle"
    /\ \E path \in Images \cup {"missing"}, c \in DetectorConfidences :
        LET in == [Idle EXCEPT !.pc = "done", !.route = "TakaNoteDetector.predict",
                               !.file = path, !.confidence = c]
        IN IF path = "missing"
           THEN req' = [req EXCEPT ![r] = [in EXCEPT !.raised = "FileNotFoundError"]]
           ELSE \E out \in (IF Decodes(path) THEN EngineOutcomes(path, c) ELSE {EngineRaised}) :
                LET s == detector_shape_results(detector_class_names, out) IN
                req' = [req EXCEPT ![r] =
                    [in EXCEPT !.engine_calls = 1, !.engine_out = out,
                               !.raised = IF out.kind = "raised" THEN "Exception"
                                          ELSE IF s.raised THEN "IndexError" ELSE "",
                               !.result = IF s.raised THEN None
                                          ELSE Some(detector_result(path, s.detections))]]
    /\ UNCHANGED <<phase, weights, model, class_names>>

\* The client takes the answer; the slot is free again.
collect(r) ==
    /\ req[r].pc = "done"
    /\ req' = [req EXCEPT ![r] = Idle]
    /\ UNCHANGED <<phase, weights, model, class_names>>

Init ==
    /\ phase = "init"
    /\ weights \in {"absent", "valid", "corrupt"}
    /\ model = "None"
    /\ class_names = <<"100 tk", "1000 tk", "200 tk", "500 tk", "objects">>
    /\ req = [r \in Req |-> Idle]

Next ==
    \/ startup_event
    \/ \E r \in DOMAIN req : root(r)
    \/ \E r \in DOMAIN req : health_check(r)
    \/ \E r \in DOMAIN req : predict(r)
    \/ \E r \in DOMAIN req : predict_resume(r)
    \/ \E r \in DOMAIN req : TakaNoteDetector_predict(r)
    \/ \E r \in DOMAIN req : collect(r)

Spec == Init /\ [][Next]_vars

\* ------------------------------------------------------------------ concurrent requests

\* Number of /predict requests the server handles at once.
ConcRequests == 2

ConcContentTypes == {Some(TextPlain), Some(ImageJpeg)}

ConcQueries == {None, Some(Float(5000))}

ConcImages == {"blank", "notes"}

InitConc ==
    /\ phase = "init"
    /\ weights \in {"absent", "valid", "corrupt"}
    /\ model = "None"
    /\ class_names = <<"100 tk", "1000 tk", "200 tk", "500 tk", "objects">>
    /\ req = [r \in 1..ConcRequests |-> Idle]

\* The event loop runs one handler at a time up to its next await, in any order.
NextConc ==
    \/ startup_event
    \/ \E r \in DOMAIN req : predict_with(r, ConcContentTypes, ConcQueries, {None}, ConcImages)
    \/ \E r \in DOMAIN req : predict_resume(r)
    \/ \E r \in DOMAIN req : collect(r)

SpecConc == InitConc /\ [][NextConc]_vars

\* ------------------------------------------------------------------ properties

\* Slot r holds a call of the given route.
IsCall(r, route) == req[r].pc # "idle" /\ req[r].route = route

\* Slot r holds an answered HTTP request.
Answered(r) == req[r].pc = "done" /\ req[r].response # NoResponse

Status(r) == req[r].response[1].status_code

Body(r) == req[r].response[1].body

\* In this step a handler of the given route starts in slot r.
Starts(r, route) ==
    /\ req[r].pc = "idle"
    /\ req'[r].pc # "idle"
    /\ req'[r].route = route

\* In this step the handler started in slot r ends at once with the given status.
EndsWith(r, code) ==
    /\ req'[r].pc = "done"
    /\ req'[r].response # NoResponse
    /\ req'[r].response[1].status_code = code

DeclaresImage(ct) == ct # None /\ StartsWith(ct[1], ImageSlash)

WithinUnit(c) == ~c.nan /\ 0 <= c.v /\ c.v <= One

\* C1: a POST /predict handled while the model handle is unset ends with 503,
\* whatever content type, confidence and file it carries, and before anything
\* is read or inferred.
C1_Unset503 ==
    [][\A r \in DOMAIN req :
        (model = "None" /\ Starts(r, "/predict"))
            => /\ EndsWith(r, 503)
               /\ req'[r].read_count = 0
               /\ req'[r].engine_calls = 0]_vars

C1_Witness ==
    \E r \in DOMAIN req :
        /\ IsCall(r, "/predict") /\ Answered(r) /\ Status(r) = 503
        /\ model = "None"
        /\ req[r].content_type = Some(TextPlain)
        /\ req[r].confidence = Float(One + 1)

\* C2: with the model loaded, a POST /predict whose file has no content type or
\* one that does not start with 'image/' ends with 400, for every confidence
\* and file.
C2_NotImage400 ==
    [][\A r \in DOMAIN req :
        (model # "None" /\ Starts(r, "/predict") /\ ~DeclaresImage(req'[r].content_type))
            => EndsWith(r, 400)]_vars

C2_Witness ==
    \E r \in DOMAIN req :
        /\ IsCall(r, "/predict") /\ Answered(r) /\ Status(r) = 400
        /\ req[r].content_type = Some(ImageNoSlash)
        /\ WithinUnit(req[r].confidence)

\* C3: with the model loaded and an image content type, the threshold t the
\* handler receives passes validation exactly when 0.0 <= t <= 1.0 (both ends
\* included) and the request goes on to read the upload; every other t ends
\* with 400.
C3_RangeInclusive ==
    [][\A r \in DOMAIN req :
        (model # "None" /\ Starts(r, "/predict") /\ DeclaresImage(req'[r].content_type))
            => IF WithinUnit(req'[r].confidence)
               THEN req'[r].pc = "reading"
               ELSE EndsWith(r, 400)]_vars

C3_Witness ==
    \E r \in DOMAIN req :
        /\ IsCall(r, "/predict") /\ Answered(r) /\ Status(r) = 200
        /\ req[r].confidence = Float(One)
        /\ req[r].engine_calls = 1

\* C4: a POST /predict that carries confidence as a form field beside the
\* image file (and no query parameter) is validated against the form value: it
\* gets past validation only with a form value in [0,1], and the form value is
\* the threshold given to the engine.
C4_FormFieldBound ==
    \A r \in DOMAIN req :
        (/\ IsCall(r, "/predict")
         /\ req[r].query_confidence = None
         /\ req[r].form_confidence # None
         /\ DeclaresImage(req[r].content_type)
         /\ req[r].read_count > 0)
            => /\ WithinUnit(req[r].form_confidence[1])
               /\ req[r].confidence = req[r].form_confidence[1]

\* C5: in every successful result of POST /predict and of
\* TakaNoteDetector.predict, num_detections is the length of detections.
C5_CountIsLength ==
    \A r \in DOMAIN req :
        /\ (IsCall(r, "/predict") /\ Answered(r) /\ Status(r) = 200)
              => Body(r).num_detections = Len(Body(r).detections)
        /\ (IsCall(r, "TakaNoteDetector.predict") /\ req[r].result # None)
              => req[r].result[1].num_detections = Len(req[r].result[1].detections)

C5_Witness ==
    \E r \in DOMAIN req :
        /\ IsCall(r, "/predict") /\ Answered(r) /\ Status(r) = 200
        /\ Len(Body(r).detections) = 2

\* The engine returned a result without boxes to the call in slot r.
NoBoxes(r) ==
    /\ req[r].engine_out.kind = "returned"
    /\ Len(req[r].engine_out.results) > 0
    /\ \/ req[r].engine_out.results[1].boxes = None
       \/ Len(req[r].engine_out.results[1].boxes[1].xyxy) = 0

\* C6: when the engine returns no boxes (None or length 0) the request ends
\* with 200 and success=true, num_detections=0, detections=[] and the success
\* message.
C6_NoBoxesIsSuccess ==
    \A r \in DOMAIN req :
        (IsCall(r, "/predict") /\ req[r].pc = "done" /\ NoBoxes(r))
            => /\ Answered(r)
               /\ Status(r) = 200
               /\ Body(r) = [success |-> TRUE, num_detections |-> 0, detections |-> <<>>,
                             message |-> "Detection completed successfully"]

C6_Witness ==
    \E r \in DOMAIN req :
        /\ IsCall(r, "/predict") /\ Answered(r) /\ Status(r) = 200
        /\ req[r].engine_out.kind = "returned"
        /\ Len(req[r].engine_out.results) > 0
        /\ req[r].engine_out.results[1].boxes = None

\* The engine output of slot r has fewer scores or class ids than boxes.
ShortArrays(r) ==
    /\ req[r].engine_out.kind = "returned"
    /\ Len(req[r].engine_out.results) > 0
    /\ req[r].engine_out.results[1].boxes # None
    /\ LET b == req[r].engine_out.results[1].boxes[1] IN
        Len(b.conf) < Len(b.xyxy) \/ Len(b.cls) < Len(b.xyxy)

\* Reading, decoding, the engine call or the conversion failed in slot r.
Failed(r) ==
    \/ ~req[r].read_ok
    \/ ~Decodes(req[r].file)
    \/ req[r].engine_out.kind = "raised"
    \/ (req[r].engine_out.kind = "returned" /\ Len(req[r].engine_out.results) = 0)
    \/ ShortArrays(r)

\* C7: once validation has passed, a failure of the read, the decoding, the
\* engine call or the conversion (an empty result list, fewer scores or class
\* ids than boxes) ends the request with 500 and a detail string, and a 200
\* never carries fewer detections than the engine returned boxes.
C7_FailureIs500 ==
    \A r \in DOMAIN req :
        (IsCall(r, "/predict") /\ req[r].pc = "done" /\ req[r].read_count > 0)
            => /\ Answered(r)
               /\ Failed(r) => (Status(r) = 500 /\ Body(r).detail # "")
               /\ Status(r) = 200 =>
                    /\ ~Failed(r)
                    /\ Body(r).success
                    /\ Len(Body(r).detections) =
                        (IF req[r].engine_out.results[1].boxes = None THEN 0
                         ELSE Len(req[r].engine_out.results[1].boxes[1].xyxy))

C7_Witness ==
    \E r \in DOMAIN req :
        /\ IsCall(r, "/predict") /\ Answered(r) /\ Status(r) = 500
        /\ ShortArrays(r)

\* What startup leaves in the model handle.
HandleFollowsLoad ==
    /\ phase = "init" => model = "None"
    /\ weights # "valid" => model = "None"
    /\ (phase = "serving" /\ weights = "valid") => model # "None"

\* C8: GET /health always answers 200 with status 'healthy', and model_status
\* is 'loaded' exactly when the model handle is set: unset before startup and
\* after a failed load, set after a successful one.
C8_HealthReportsHandle ==
    [][/\ HandleFollowsLoad
       /\ HandleFollowsLoad'
       /\ \A r \in DOMAIN req :
            Starts(r, "/health")
                => /\ EndsWith(r, 200)
                   /\ req'[r].response[1].body.status = "healthy"
                   /\ req'[r].response[1].body.model_status \in {"loaded", "not loaded"}
                   /\ req'[r].response[1].body.model_status = "loaded" <=> model # "None"]_vars

C8_Witness ==
    \E r \in DOMAIN req :
        /\ IsCall(r, "/health") /\ Answered(r) /\ Status(r) = 200
        /\ Body(r).model_status = "loaded"
        /\ phase = "serving" /\ weights = "valid"

\* C9: with the weights file absent, startup completes without raising and
\* leaves the handle unset; afterwards GET / and GET /health answer 200 and
\* every POST /predict answers 503.
C9_AbsentWeightsDegrade ==
    [][weights = "absent" =>
        /\ (phase = "init" /\ phase' # "init") => (phase' = "serving" /\ model' = "None")
        /\ phase = "serving" =>
            /\ model = "None"
            /\ \A r \in DOMAIN req :
                /\ Starts(r, "/") => EndsWith(r, 200)
                /\ Starts(r, "/health") => EndsWith(r, 200)
                /\ Starts(r, "/predict") => EndsWith(r, 503)]_vars

C9_Witness ==
    \E r \in DOMAIN req :
        /\ weights = "absent" /\ phase = "serving"
        /\ IsCall(r, "/predict") /\ Answered(r) /\ Status(r) = 503
        /\ req[r].content_type = Some(ImageJpeg)
        /\ req[r].confidence = Float(DefaultConfidence)

\* C10: a POST /predict that ends with 400 or 503 has read nothing and called
\* the engine not at all, and whenever the upload was read or the engine
\* called, the model was there, the content type an image and the confidence
\* in range.
C10_ChecksBeforeWork ==
    \A r \in DOMAIN req :
        IsCall(r, "/predict") =>
            /\ (Answered(r) /\ Status(r) \in {400, 503})
                  => /\ req[r].read_count = 0
                     /\ req[r].engine_calls = 0
                     /\ req[r].engine_out = NotCalled
            /\ (req[r].read_count > 0 \/ req[r].engine_calls > 0)
                  => /\ model # "None"
                     /\ DeclaresImage(req[r].content_type)
                     /\ WithinUnit(req[r].confidence)

C10_Witness ==
    \E r \in DOMAIN req :
        /\ IsCall(r, "/predict") /\ Answered(r) /\ Status(r) = 400
        /\ req[r].content_type = Some(ImageJpeg)
        /\ req[r].confidence = NaN
        /\ req[r].read_count = 0

\* The engine handed the call in slot r a result with boxes (one or more).
HasBoxes(r) ==
    /\ req[r].engine_out.kind = "returned"
    /\ Len(req[r].engine_out.results) > 0
    /\ req[r].engine_out.results[1].boxes # None
    /\ Len(req[r].engine_out.results[1].boxes[1].xyxy) > 0

EngineBoxes(r) == req[r].engine_out.results[1].boxes[1]

\* Number of entries of the label set (api.py line 43, inference.py line 45).
NumLabels == 5

InLabelSet(id) == 0 <= id /\ id < NumLabels

\* C11: when the engine returns a detection whose class id is outside the
\* five-entry label set (id < 0 or id >= 5) the request fails with an error:
\* no 200 response, and so no labelled detection record, is produced for it.
C11_OutOfRangeIdFails ==
    \A r \in DOMAIN req :
        (/\ IsCall(r, "/predict")
         /\ req[r].pc = "done"
         /\ HasBoxes(r)
         /\ \E i \in 1..Len(EngineBoxes(r).cls) : ~InLabelSet(EngineBoxes(r).cls[i]))
            => (Answered(r) /\ Status(r) # 200)

\* The engine output of slot r is n boxes, n scores and n class ids of the label set.
WellFormed(r) ==
    /\ HasBoxes(r)
    /\ Len(EngineBoxes(r).conf) = Len(EngineBoxes(r).xyxy)
    /\ Len(EngineBoxes(r).cls) = Len(EngineBoxes(r).xyxy)
    /\ \A i \in 1..Len(EngineBoxes(r).cls) : InLabelSet(EngineBoxes(r).cls[i])

\* The sequence dets is the engine output of slot r, record by record, labelled by names.
MirrorsEngine(r, dets, names) ==
    /\ Len(dets) = Len(EngineBoxes(r).xyxy)
    /\ \A i \in 1..Len(dets) :
        /\ dets[i].class_name = names[EngineBoxes(r).cls[i] + 1]
        /\ dets[i].confidence = EngineBoxes(r).conf[i]
        /\ dets[i].bounding_box = [x1 |-> EngineBoxes(r).xyxy[i][1], y1 |-> EngineBoxes(r).xyxy[i][2],
                                   x2 |-> EngineBoxes(r).xyxy[i][3], y2 |-> EngineBoxes(r).xyxy[i][4]]

\* C12: for an engine output of n boxes with class ids of the label set, the
\* returned detections have length n and the i-th record is built from the
\* i-th engine detection alone, in the engine's order.
C12_OrderPreserved ==
    \A r \in DOMAIN req :
        (req[r].pc = "done" /\ WellFormed(r))
            => /\ IsCall(r, "/predict")
                  => /\ Answered(r) /\ Status(r) = 200
                     /\ MirrorsEngine(r, Body(r).detections, class_names)
               /\ IsCall(r, "TakaNoteDetector.predict")
                  => /\ req[r].result # None
                     /\ MirrorsEngine(r, req[r].result[1].detections, detector_class_names)

\* Two detections come back, the weaker one first, as the engine gave them.
C12_Witness ==
    \E r \in DOMAIN req :
        /\ IsCall(r, "/predict") /\ Answered(r) /\ Status(r) = 200
        /\ WellFormed(r)
        /\ Len(Body(r).detections) = 2
        /\ Body(r).detections[1].confidence < Body(r).detections[2].confidence

Terminal(r) ==
    (IsCall(r, "/predict") /\ req[r].pc = "done")
        => /\ Answered(r)
           /\ Status(r) \in {200, 400, 503, 500}
           /\ req[r].read_count <= 1
           /\ req[r].engine_calls <= 1
           /\ Status(r) = 200 => (req[r].engine_out.kind = "returned" /\ ~Failed(r))
           /\ Status(r) \in {400, 503} => req[r].engine_calls = 0

\* C14: every POST /predict ends in one outcome among 200, 400, 503 and 500
\* that is never replaced afterwards, the engine is called at most once for
\* it, and a failure is never answered 200.
C14_OneTerminalOutcome ==
    [][\A r \in DOMAIN req :
        /\ Terminal(r)
        /\ Terminal(r)'
        /\ (IsCall(r, "/predict") /\ req[r].pc = "done")
              => (req'[r] = req[r] \/ req'[r] = Idle)
        /\ (IsCall(r, "/predict") /\ req[r].pc = "reading")
              => \/ req'[r] = req[r]
                 \/ req'[r] = Idle
                 \/ /\ req'[r].pc = "done"
                    /\ req'[r].engine_calls <= 1
                    /\ req'[r].read_count = 1]_vars

\* A request whose engine call raised has ended with 500 after that one call.
C14_Witness ==
    \E r \in DOMAIN req :
        /\ IsCall(r, "/predict") /\ Answered(r) /\ Status(r) = 500
        /\ req[r].engine_out.kind = "raised"
        /\ req[r].engine_calls = 1

\* C15: the model handle is written only by load_model at startup, and no
\* handler (/, /health, /predict), whatever its outcome, changes the handle or
\* the class_names list.
C15_GlobalsReadOnly ==
    [][/\ class_names' = class_names
       /\ model' # model => (phase = "init" /\ phase' = "serving" /\ weights = "valid"
                             /\ model' = "YOLO")
       /\ (\E r \in DOMAIN req : req'[r] # req[r] /\ req'[r] # Idle)
              => (model' = model /\ class_names' = class_names)]_vars

\* The handle is still set after a request that ended with 500.
C15_Witness ==
    \E r \in DOMAIN req :
        /\ IsCall(r, "/predict") /\ Answered(r) /\ Status(r) = 500
        /\ req[r].read_ok /\ Decodes(req[r].file)
        /\ model = "YOLO"
        /\ class_names = <<"100 tk", "1000 tk", "200 tk", "500 tk", "objects">>

Labels == <<"100 tk", "1000 tk", "200 tk", "500 tk", "objects">>

\* The responses a POST /predict with the inputs of record q can get when it is
\* the only request, under model handle m.
AloneResponses(q, m) ==
    LET c == IF q.query_confidence # None THEN q.query_confidence[1]
             ELSE Float(DefaultConfidence)
    IN  IF m = "None" THEN {503}
        ELSE IF ~DeclaresImage(q.content_type) \/ ~WithinUnit(c) THEN {400}
        ELSE {500}
             \cup (IF Decodes(q.file)
                   THEN { 200 : o \in {x \in EngineOutcomes(q.file, c) :
                                        ~shape_results(Labels, x).raised} }
                   ELSE {})

\* The detections such a request can be answered with.
AloneDetections(q) ==
    LET c == IF q.query_confidence # None THEN q.query_confidence[1]
             ELSE Float(DefaultConfidence)
        good == {x \in EngineOutcomes(q.file, c) : ~shape_results(Labels, x).raised}
    IN  { shape_results(Labels, x).detections : x \in good }

\* The answer in slot r is one the request would get alone.
OwnAnswer(r) ==
    (IsCall(r, "/predict") /\ req[r].pc = "done")
        => /\ Answered(r)
           /\ \E m \in {"None", "YOLO"} : Status(r) \in AloneResponses(req[r], m)
           /\ model = "None" => Status(r) = 503
           /\ Status(r) = 200 => Body(r).detections \in AloneDetections(req[r])

\* C16: when /predict requests interleave at their suspension points, each
\* response is one the request would get running alone: it is determined by
\* the request's own file, content type and threshold and by the model handle,
\* and a step of one request leaves every other request as it was.
C16_RequestsIndependent ==
    [][\A r \in DOMAIN req :
        /\ OwnAnswer(r)
        /\ OwnAnswer(r)'
        /\ (req'[r] # req[r] /\ phase' = phase)
              => \A o \in DOMAIN req \ {r} : req'[o] = req[o]]_vars

\* Two requests with different uploads and thresholds, both past validation,
\* one answered with its two detections while the other is still suspended.
C16_Witness ==
    \E r, o \in DOMAIN req :
        /\ r # o
        /\ IsCall(r, "/predict") /\ Answered(r) /\ Status(r) = 200
        /\ req[r].file = "notes" /\ Len(Body(r).detections) = 2
        /\ IsCall(o, "/predict") /\ req[o].pc = "reading"
        /\ req[o].file = "blank" /\ req[o].confidence # req[r].confidence

\* Slots r and o hold answered requests with the same inputs, handled under the
\* same handle by an engine and a transport that behaved the same for both.
SameRequest(r, o) ==
    /\ IsCall(r, "/predict") /\ Answered(r)
    /\ IsCall(o, "/predict") /\ Answered(o)
    /\ req[r].file = req[o].file
    /\ req[r].content_type = req[o].content_type
    /\ req[r].confidence = req[o].confidence
    /\ (Status(r) = 503) <=> (Status(o) = 503)
    /\ req[r].read_ok = req[o].read_ok
    /\ req[r].engine_out = req[o].engine_out

C18_ShapingsAgree ==
    \A r \in DOMAIN req :
        /\ (IsCall(r, "/predict") /\ req[r].pc = "done" /\ req[r].engine_calls = 1)
              => LET d == detector_shape_results(detector_class_names, req[r].engine_out) IN
                 /\ Status(r) = 200 <=> ~d.raised
                 /\ Status(r) = 200 =>
                      /\ Body(r).detections = d.detections
                      /\ Body(r).num_detections = detector_result("", d.detections).num_detections
        /\ (IsCall(r, "TakaNoteDetector.predict") /\ req[r].file # "missing")
              => LET a == shape_results(class_names, req[r].engine_out) IN
                 /\ req[r].engine_calls = 1
                 /\ req[r].result # None <=> ~a.raised
                 /\ req[r].result # None =>
                      /\ req[r].result[1].detections = a.detections
                      /\ req[r].result[1].num_detections =
                            prediction_response(req[r].engine_out.results, a.detections).num_detections
        /\ (IsCall(r, "TakaNoteDetector.predict") /\ req[r].file = "missing")
              => /\ req[r].raised = "FileNotFoundError"
                 /\ req[r].engine_calls = 0
                 /\ req[r].result = None

\* The detector has returned the two detections of an engine output that
\* predict() shapes into the same two records.
C18_Witness ==
    \E r \in DOMAIN req :
        /\ IsCall(r, "TakaNoteDetector.predict")
        /\ req[r].file = "notes"
        /\ req[r].engine_calls = 1
        /\ req[r].result # None
        /\ req[r].result[1].num_detections = 2
        /\ req[r].result[1].detections = shape_results(class_names, req[r].engine_out).detections

=============================================================================
